---- MODULE Spec2Model ----
(***************************************************************************)
(* State machine of GitHubService (src/src/extension/GitHubService.ts):    *)
(* the sync() pass with its in-flight guard, the paged issue fetch, the    *)
(* per-issue conflict decision, CREATE / PULL / PUSH, and the caller that  *)
(* stores the records a pass created.                                      *)
(*                                                                         *)
(* JavaScript runs one continuation at a time, so every action below is    *)
(* the code between two awaits of one sync() call.  Instants are            *)
(* integers (Date.getTime()); "" stands for null / undefined / '' where    *)
(* the code only tests truthiness; a text (content, title, body) is the    *)
(* sequence of its characters.                                             *)
(***************************************************************************)
EXTENDS Integers, Sequences, FiniteSets, TLC

\* ---------------------------------------------------------------- bounds
MaxCalls == 2
MaxInvocations == 2
MaxOverlapping == 3
MaxTime == 2
MaxIssue == 2
MaxItems == 1
MaxFiles == 3
MaxMoves == 2
MaxSuffix == 1
MaxContent == 5
MaxPushes == 1
MaxDepth == 4

\* ------------------------------------------------------ program constants
maxPages == 2
PerPage == 100

Calls == 1..MaxCalls
Times == 0..MaxTime
IssueNumbers == 1..MaxIssue

NoRepo == ""
ConfigRepo == "owner/repo"
OtherRepo == "other/repo"
NoLogin == ""
Me == "me"
Other == "other"
NoTime == -1

AlreadyInProgress == "Sync already in progress"
NoRepository == "No GitHub repository configured or detected"

\* GitHubMeta of a record that has no github link
NoGithub == [issueNumber |-> 0, repo |-> NoRepo, syncedAt |-> 0]

\* ------------------------------------------------------------ remote data
\* One element of the array GET /issues returns.  A pull request carries the
\* pull_request key and is dropped by the filter before any field is read.
PullRequestItem ==
  [number |-> 0, title |-> <<"p">>, body |-> <<>>, state |-> "open", assignee |-> NoLogin,
   labels |-> <<>>, updated_at |-> 0, pull_request |-> TRUE]

\* An issue as GitHub holds it when the extension starts.
InitialIssue(n) ==
  [number |-> n, title |-> <<"r">>, body |-> <<>>, state |-> "open",
   assignee |-> NoLogin, labels |-> <<"bug">>, updated_at |-> 0, pull_request |-> FALSE]

Range(seq) == {seq[k] : k \in 1..Len(seq)}

RECURSIVE SeqsUpTo(_, _)
SeqsUpTo(S, n) ==
  IF n = 0 THEN {<<>>}
  ELSE LET shorter == SeqsUpTo(S, n - 1)
       IN  shorter \cup {Append(s, x) : s \in {t \in shorter : Len(t) = n - 1}, x \in S}

\* The body of one page: the items the model follows, each as the remote
\* holds it now, and whether the rest of the page is filled up to
\* per_page=100 with pull requests.  Which issues a page lists is left open:
\* the list shifts when issues are created between two page requests.
PageData(issuesNow) ==
  [items : SeqsUpTo({issuesNow[n] : n \in DOMAIN issuesNow} \cup {PullRequestItem}, MaxItems),
   full : BOOLEAN]

DataLength(data) == IF data.full THEN PerPage ELSE Len(data.items)

\* What _apiRequest sees: whether a session was obtained, the HTTP status and
\* the X-RateLimit-Remaining header.
ResponseHeads ==
  { [session |-> FALSE, status |-> 200, remaining |-> "1"],
    [session |-> TRUE, status |-> 200, remaining |-> "1"],
    [session |-> TRUE, status |-> 403, remaining |-> "0"],
    [session |-> TRUE, status |-> 403, remaining |-> "1"],
    [session |-> TRUE, status |-> 500, remaining |-> "1"] }

ApiOutcome(head) ==
  IF ~head.session THEN "GitHub authentication required"
  ELSE IF head.status = 403 /\ head.remaining = "0" THEN "GitHub API rate limit exceeded"
  ELSE IF ~(head.status \in 200..299) THEN "GitHub API request failed"
  ELSE "ok"

\* ------------------------------------------------------------------ state
VARIABLES
  _repo,              \* GitHubService._repo
  _syncing,           \* GitHubService._syncing
  _currentUserLogin,  \* GitHubService._currentUserLogin
  now,                \* the last instant new Date() returned
  features,           \* the caller's records (objects shared with the passes)
  caller,             \* whether the caller awaits a sync() before the next one
  callsLeft,          \* number of sync() calls still to be made
  remote,             \* the issues as GitHub holds them
  pc,                 \* position of each sync() call
  argLen,             \* the features argument: the records the call was given
  page,               \* _fetchIssues: page
  issues,             \* _fetchIssues: allIssues, then the issues not yet handled
  syncedByNumber,     \* sync: the lookup issue number -> record
  existing,           \* sync: the record whose PATCH is awaited
  patch,              \* _pushFeatureToGitHub: the body of the PATCH awaited
  result,             \* sync: result
  emitted,            \* statuses the call passed to _onStatusChange
  requests,           \* requests the call sent
  warnings,           \* showWarningMessage calls of the call
  trace,              \* decisions the call took, with the instants compared
  received,           \* data.length of the pages the call received
  files,              \* the files below featuresDir: path -> content
  movesLeft,          \* number of moveFeatureFile calls still to be made
  mpc,                \* position of the moveFeatureFile call
  currentPath,        \* moveFeatureFile: currentPath
  targetPath,         \* moveFeatureFile: targetPath
  counter,            \* moveFeatureFile: counter
  moving,             \* the content of the file moveFeatureFile was called for
  outcome,            \* what moveFeatureFile returned or threw
  ops,                \* the file system operations the moveFeatureFile call asked for
  asked,              \* a path given to getStatusFromPath and the answer
  round,              \* a record taken through one PUSH and the PULL after it
  pushing,            \* pushFeature: the record whose PATCH is awaited
  pushesLeft,         \* number of pushFeature calls still to be made
  shown               \* showWarningMessage calls of the pushFeature calls

syncvars == <<_repo, _syncing, _currentUserLogin, now, features, caller, callsLeft, remote,
              pc, argLen, page, issues, syncedByNumber, existing, patch, result, emitted,
              requests, warnings, trace, received>>

fsvars == <<files, movesLeft, mpc, currentPath, targetPath, counter, moving, outcome, ops,
            asked>>

pfvars == <<pushing, pushesLeft, shown>>

vars == <<syncvars, fsvars, round, pfvars>>

locals == <<argLen, page, issues, syncedByNumber, existing, patch, result, emitted,
            requests, warnings, trace, received>>

EmptyResult == [created |-> <<>>, updated |-> <<>>, pushed |-> <<>>, errors |-> <<>>]
EmptyLookup == [n \in IssueNumbers |-> 0]
NoPatch == [title |-> <<>>, body |-> <<>>, state |-> ""]

\* A path below featuresDir: the status folder and the file name, which is
\* "abc.md" followed by the numeric suffixes in name (<<1>> is "abc-1.md").
Path(dir, name) == [dir |-> dir, name |-> name]

\* filePath: '' (line 303)
NoPath == Path("", <<>>)

NoStatus == ""

\* generateFeatureFilename of shared/types: the id is derived from the title.
generateFeatureFilename(title) == <<"id-of", title>>

LocalRecord(status, modified, github, name) ==
  [id |-> generateFeatureFilename(<<"l">>), status |-> status, priority |-> "high",
   assignee |-> NoLogin, dueDate |-> NoTime, created |-> 0, modified |-> modified,
   completedAt |-> NoTime, order |-> 1,
   content |-> <<"#", " ", "l">>, labels |-> <<"local">>, filePath |-> Path(status, name),
   github |-> github]

\* The records on disk when the extension starts: one mirrors issue 1 of the
\* configured repository (modified and last synced at the given instants),
\* one mirrors issue 1 of another repository, one was created locally.
InitialFeatures(modified, syncedAt) ==
  << LocalRecord("todo", modified,
                 [issueNumber |-> 1, repo |-> ConfigRepo, syncedAt |-> syncedAt], <<>>),
     LocalRecord("todo", 0, [issueNumber |-> 1, repo |-> OtherRepo, syncedAt |-> 0], <<1>>),
     LocalRecord("backlog", 0, NoGithub, <<>>) >>

States == {"open", "closed"}
Logins == {NoLogin, Me, Other}

\* GitHub holding every issue as created, but for issue n, which is as given.
Repository(n, issue) == [k \in IssueNumbers |-> IF k = n THEN issue ELSE InitialIssue(k)]

\* The starting points in which the caller awaits each call: every
\* combination of the three instants the decision compares (the two the
\* extension wrote are not later than its clock), and every state and
\* assignee of an issue that has a record (with a remote change to pull) and
\* of an issue that has none.
Timings ==
  {start \in [now : Times, modified : Times, syncedAt : Times,
              remote : {Repository(1, [InitialIssue(1) EXCEPT !.updated_at = u]) :
                          u \in Times}] :
     start.modified <= start.now /\ start.syncedAt <= start.now}

Remotes ==
  [now : {0}, modified : {0}, syncedAt : {0},
   remote : {Repository(1, [InitialIssue(1) EXCEPT !.state = st, !.assignee = a,
                                                   !.updated_at = MaxTime]) :
               st \in States, a \in Logins}
            \cup
            {Repository(2, [InitialIssue(2) EXCEPT !.state = st, !.assignee = a]) :
               st \in States, a \in Logins}]

\* The starting point of the runs with overlapping calls: the record was
\* edited after its last sync, the clock shows the latest instant, and the
\* repository holds issue 1 alone.
Overlapping ==
  [now |-> MaxTime, modified |-> 1, syncedAt |-> 0, remote |-> [k \in {1} |-> InitialIssue(k)]]

Start(start, how, calls) ==
  /\ _repo = NoRepo
  /\ _syncing = FALSE
  /\ _currentUserLogin = NoLogin
  /\ now = start.now
  /\ features = InitialFeatures(start.modified, start.syncedAt)
  /\ caller = how
  /\ callsLeft = calls
  /\ remote = start.remote
  /\ pc = [c \in Calls |-> "idle"]
  /\ argLen = [c \in Calls |-> 0]
  /\ page = [c \in Calls |-> 0]
  /\ issues = [c \in Calls |-> <<>>]
  /\ syncedByNumber = [c \in Calls |-> EmptyLookup]
  /\ existing = [c \in Calls |-> 0]
  /\ patch = [c \in Calls |-> NoPatch]
  /\ result = [c \in Calls |-> EmptyResult]
  /\ emitted = [c \in Calls |-> <<>>]
  /\ requests = [c \in Calls |-> <<>>]
  /\ warnings = [c \in Calls |-> <<>>]
  /\ trace = [c \in Calls |-> <<>>]
  /\ received = [c \in Calls |-> <<>>]

InitAwaits == \E start \in Timings \cup Remotes : Start(start, "awaits", MaxInvocations)

InitOverlaps == Start(Overlapping, "overlaps", MaxOverlapping)

\* The status folders (DEFAULT_STATUS_FOLDERS, line 4) the model follows.
Folders == {"backlog", "todo", "done"}

NoOutcome == [path |-> NoPath, error |-> ""]

\* getStatusFromPath is not called.
NoLookup == [stage |-> "none"]

\* No moveFeatureFile call is in flight.
MoveIdle ==
  /\ mpc = "idle"
  /\ currentPath = NoPath
  /\ targetPath = NoPath
  /\ counter = 0
  /\ moving = 0
  /\ ops = <<>>
  /\ outcome = NoOutcome

\* The files of the three records.
RecordFiles ==
  [k \in {InitialFeatures(0, 0)[i].filePath : i \in 1..3} |->
     CHOOSE i \in 1..3 : InitialFeatures(0, 0)[i].filePath = k]

\* sync() calls moveFeatureFile nowhere: the files of the three records stay
\* where they are.
NoMoves ==
  /\ files = RecordFiles
  /\ movesLeft = 0
  /\ MoveIdle
  /\ asked = NoLookup

\* No record is taken through the conversions on its own.
NoRound == [stage |-> "none"]

\* No pushFeature call is made.
\* No PATCH of a pushFeature call is awaited.
NoPush == [feature |-> 0, number |-> 0, patch |-> NoPatch]

NoPushFeature == pushing = NoPush /\ pushesLeft = 0 /\ shown = <<>>

Init == (InitAwaits \/ InitOverlaps) /\ NoMoves /\ round = NoRound /\ NoPushFeature

\* ------------------------------------------------------- pure functions
\* Absolute paths are the sequences of their segments.  The workspace, and
\* the features directory in it.
WorkspaceRoot == <<"ws">>
FeaturesDir == <<"ws", "features">>

\* path.join(featuresDir, ...segments) for segments holding no separator
join(dir, segments) == dir \o segments

\* `${filename}.md` for the two file names the model follows
WithExtension(filename) == IF filename = "abc" THEN "abc.md" ELSE "abc-1.md"

\* getFeatureFilePath (lines 15-17)
getFeatureFilePath(featuresDir, status, filename) ==
  join(featuresDir, <<status, WithExtension(filename)>>)

\* The number of leading segments two paths share.
Shared(from, to) ==
  LET same == {k \in 0..Len(from) :
                 k <= Len(to) /\ \A j \in 1..k : from[j] = to[j]}
  IN  CHOOSE k \in same : \A j \in same : j <= k

\* path.relative(from, to).split(path.sep): one '..' for every segment of
\* from below the shared part, then the rest of to; the empty string, when
\* the two are the same path, splits into one empty part.
RelativeParts(from, to) ==
  LET k == Shared(from, to)
      parts == [j \in 1..(Len(from) - k) |-> ".."] \o SubSeq(to, k + 1, Len(to))
  IN  IF parts = <<>> THEN <<"">> ELSE parts

\* DEFAULT_STATUS_FOLDERS (line 4)
StatusFolders == {"backlog", "todo", "in-progress", "review", "done"}

\* getStatusFromPath (lines 51-58)
getStatusFromPath(filePath, featuresDir) ==
  LET parts == RelativeParts(featuresDir, filePath)
  IN  IF Len(parts) = 2 THEN parts[1] ELSE NoStatus

\* The absolute path of a record's filePath; '' is resolved by path.relative
\* against the working directory, here the workspace.
Absolute(filePath) ==
  IF filePath = NoPath THEN WorkspaceRoot
  ELSE join(FeaturesDir, <<filePath.dir, IF filePath.name = <<>> THEN "abc.md"
                                         ELSE "abc-1.md">>)

HasGithub(feature) == feature.github.issueNumber # 0

\* \s of the two regular expressions, over the characters of the model.
IsSpace(ch) == ch \in {" ", "\n"}

\* String.prototype.trim
Trim(s) ==
  LET kept == {k \in 1..Len(s) : ~IsSpace(s[k])}
  IN  IF kept = {} THEN <<>>
      ELSE SubSeq(s, CHOOSE k \in kept : \A j \in kept : k <= j,
                     CHOOSE k \in kept : \A j \in kept : j <= k)

\* The last position of the line that position from is on (from - 1 when a
\* line terminator or the end of s is at from): what a greedy .+ followed
\* by $ under the m flag takes.
LineEnd(s, from) ==
  CHOOSE e \in (from - 1)..Len(s) :
    /\ \A k \in from..e : s[k] # "\n"
    /\ e = Len(s) \/ s[e + 1] = "\n"

\* The positions at which \s+ may stop after the # at position i so that
\* .+ still finds a character of the same line.
SpaceStops(s, i) ==
  {k \in (i + 1)..Len(s) :
     /\ \A j \in (i + 1)..k : IsSpace(s[j])
     /\ k + 1 <= Len(s)
     /\ s[k + 1] # "\n"}

NoMatch == [index |-> 0, group |-> 0, end |-> 0]

\* content.match(/^#\s+(.+)$/m): the leftmost # at the start of a line from
\* which the expression matches, \s+ taking as many characters as it can
\* (line terminators are \s).  index is where match[0] starts, group where
\* match[1] starts, end where both stop (positions counted from 1).
HeadingMatch(content) ==
  LET starts == {i \in 1..Len(content) :
                   /\ i = 1 \/ content[i - 1] = "\n"
                   /\ content[i] = "#"
                   /\ SpaceStops(content, i) # {}}
  IN  IF starts = {} THEN NoMatch
      ELSE LET i == CHOOSE a \in starts : \A b \in starts : a <= b
               k == CHOOSE a \in SpaceStops(content, i) :
                      \A b \in SpaceStops(content, i) : b <= a
           IN  [index |-> i, group |-> k + 1, end |-> LineEnd(content, k + 1)]

Untitled == <<"U", "n", "t", "i", "t", "l", "e", "d">>

\* getTitleFromContent of CreateFeatureDialog.tsx
getTitleFromContent(content) ==
  LET match == HeadingMatch(content)
  IN  IF match # NoMatch THEN Trim(SubSeq(content, match.group, match.end)) ELSE Untitled

\* Lines 339-342 of _pushFeatureToGitHub: body
BodyOfContent(content) ==
  LET bodyMatch == HeadingMatch(content)
  IN  IF bodyMatch # NoMatch THEN Trim(SubSeq(content, bodyMatch.end + 1, Len(content)))
      ELSE content

\* Lines 281 and 312: body ? `# ${title}\n\n${body}` : `# ${title}`
Content(title, body) ==
  IF body # <<>> THEN <<"#", " ">> \o title \o <<"\n", "\n">> \o body
  ELSE <<"#", " ">> \o title

_resolveOpenIssueStatus(issue, login) ==
  IF login # NoLogin /\ issue.assignee = login THEN "todo" ELSE "backlog"

ResolvedStatus(issue, login) ==
  IF issue.state = "closed" THEN "done" ELSE _resolveOpenIssueStatus(issue, login)

_issueToFeature(issue, repo, login, t) ==
  LET status == ResolvedStatus(issue, login)
  IN  [id |-> generateFeatureFilename(issue.title),
       status |-> status,
       priority |-> "medium",
       assignee |-> issue.assignee,
       dueDate |-> NoTime,
       created |-> t,
       modified |-> t,
       completedAt |-> IF status = "done" THEN t ELSE NoTime,
       order |-> 0,
       content |-> Content(issue.title, issue.body),
       labels |-> issue.labels,
       filePath |-> NoPath,
       github |-> [issueNumber |-> issue.number, repo |-> repo, syncedAt |-> t]]

\* _updateFeatureFromIssue without line 331: syncedAt stays what it was.
_updateFeatureFromIssue_KeepsSyncedAt(feature, issue, login, t) ==
  LET resolvedStatus == ResolvedStatus(issue, login)
      reopened == feature.status = "done" /\ resolvedStatus # "done"
      closed == feature.status # "done" /\ resolvedStatus = "done"
  IN  [feature EXCEPT
         !.content = Content(issue.title, issue.body),
         !.status = IF reopened THEN resolvedStatus ELSE IF closed THEN "done" ELSE @,
         !.completedAt = IF reopened THEN NoTime ELSE IF closed THEN t ELSE @,
         !.assignee = IF issue.assignee # NoLogin THEN issue.assignee ELSE @,
         !.labels = issue.labels,
         !.modified = t]

\* _updateFeatureFromIssue writing the status resolved from the issue whatever
\* the status of the record is.
_updateFeatureFromIssue_WritesResolvedStatus(feature, issue, login, t) ==
  LET resolvedStatus == ResolvedStatus(issue, login)
      reopened == feature.status = "done" /\ resolvedStatus # "done"
      closed == feature.status # "done" /\ resolvedStatus = "done"
  IN  [feature EXCEPT
         !.content = Content(issue.title, issue.body),
         !.status = resolvedStatus,
         !.completedAt = IF reopened THEN NoTime ELSE IF closed THEN t ELSE @,
         !.assignee = IF issue.assignee # NoLogin THEN issue.assignee ELSE @,
         !.labels = issue.labels,
         !.modified = t,
         !.github.syncedAt = t]

\* _updateFeatureFromIssue deriving the id again from the title pulled.
_updateFeatureFromIssue_RenamesId(feature, issue, login, t) ==
  LET resolvedStatus == ResolvedStatus(issue, login)
      reopened == feature.status = "done" /\ resolvedStatus # "done"
      closed == feature.status # "done" /\ resolvedStatus = "done"
  IN  [feature EXCEPT
         !.id = generateFeatureFilename(issue.title),
         !.content = Content(issue.title, issue.body),
         !.status = IF reopened THEN resolvedStatus ELSE IF closed THEN "done" ELSE @,
         !.completedAt = IF reopened THEN NoTime ELSE IF closed THEN t ELSE @,
         !.assignee = IF issue.assignee # NoLogin THEN issue.assignee ELSE @,
         !.labels = issue.labels,
         !.modified = t,
         !.github.syncedAt = t]

\* _updateFeatureFromIssue without the test of line 325.
_updateFeatureFromIssue_BlanksAssignee(feature, issue, login, t) ==
  LET resolvedStatus == ResolvedStatus(issue, login)
      reopened == feature.status = "done" /\ resolvedStatus # "done"
      closed == feature.status # "done" /\ resolvedStatus = "done"
  IN  [feature EXCEPT
         !.content = Content(issue.title, issue.body),
         !.status = IF reopened THEN resolvedStatus ELSE IF closed THEN "done" ELSE @,
         !.completedAt = IF reopened THEN NoTime ELSE IF closed THEN t ELSE @,
         !.assignee = issue.assignee,
         !.labels = issue.labels,
         !.modified = t,
         !.github.syncedAt = t]

\* _updateFeatureFromIssue leaving completedAt as it is when the issue was
\* reopened.
_updateFeatureFromIssue_KeepsCompletedAt(feature, issue, login, t) ==
  LET resolvedStatus == ResolvedStatus(issue, login)
      reopened == feature.status = "done" /\ resolvedStatus # "done"
      closed == feature.status # "done" /\ resolvedStatus = "done"
  IN  [feature EXCEPT
         !.content = Content(issue.title, issue.body),
         !.status = IF reopened THEN resolvedStatus ELSE IF closed THEN "done" ELSE @,
         !.completedAt = IF closed THEN t ELSE @,
         !.assignee = IF issue.assignee # NoLogin THEN issue.assignee ELSE @,
         !.labels = issue.labels,
         !.modified = t,
         !.github.syncedAt = t]

_updateFeatureFromIssue(feature, issue, login, t) ==
  LET resolvedStatus == ResolvedStatus(issue, login)
      reopened == feature.status = "done" /\ resolvedStatus # "done"
      closed == feature.status # "done" /\ resolvedStatus = "done"
  IN  [feature EXCEPT
         !.content = Content(issue.title, issue.body),
         !.status = IF reopened THEN resolvedStatus ELSE IF closed THEN "done" ELSE @,
         !.completedAt = IF reopened THEN NoTime ELSE IF closed THEN t ELSE @,
         !.assignee = IF issue.assignee # NoLogin THEN issue.assignee ELSE @,
         !.labels = issue.labels,
         !.modified = t,
         !.github.syncedAt = t]

\* Resolve with the tie of line 107 given to the local side.
Resolve_LocalWinsTies(issueUpdated, syncedAt, localModified) ==
  IF issueUpdated > syncedAt /\ localModified > syncedAt
  THEN IF issueUpdated > localModified THEN "PULL" ELSE "PUSH"
  ELSE IF issueUpdated > syncedAt THEN "PULL"
  ELSE IF localModified > syncedAt THEN "PUSH"
  ELSE "SKIP"

\* Resolve pushing a record that was not modified after its last sync.
Resolve_PushesUnchanged(issueUpdated, syncedAt, localModified) ==
  IF issueUpdated > syncedAt /\ localModified > syncedAt
  THEN IF issueUpdated >= localModified THEN "PULL" ELSE "PUSH"
  ELSE IF issueUpdated > syncedAt THEN "PULL"
  ELSE IF localModified >= syncedAt THEN "PUSH"
  ELSE "SKIP"

\* The if-chain of sync() over the three instants.
Resolve(issueUpdated, syncedAt, localModified) ==
  IF issueUpdated > syncedAt /\ localModified > syncedAt
  THEN IF issueUpdated >= localModified THEN "PULL" ELSE "PUSH"
  ELSE IF issueUpdated > syncedAt THEN "PULL"
  ELSE IF localModified > syncedAt THEN "PUSH"
  ELSE "SKIP"

\* Lines 337-344: the body of the PATCH.
PushBody(feature) ==
  [title |-> getTitleFromContent(feature.content),
   body |-> BodyOfContent(feature.content),
   state |-> IF feature.status = "done" THEN "closed" ELSE "open"]

\* The issue after GitHub applied a PATCH at instant t.
Patched(issue, body, t) ==
  [issue EXCEPT !.title = body.title, !.body = body.body, !.state = body.state, !.updated_at = t]

\* Linked without the repository test of line 87.
Linked_AnyRepo(feats, n, repo, k) ==
  {i \in 1..n : HasGithub(feats[i]) /\ feats[i].github.issueNumber = k}

\* Map.set in the order of the features argument: the last record linked to
\* a number in the configured repository is the one the lookup returns.
Linked(feats, n, repo, k) ==
  {i \in 1..n : HasGithub(feats[i]) /\ feats[i].github.repo = repo
                /\ feats[i].github.issueNumber = k}

Last(S) == CHOOSE i \in S : \A j \in S : j <= i

BuildLookup(feats, n, repo) ==
  [k \in IssueNumbers |->
     IF Linked(feats, n, repo, k) = {} THEN 0 ELSE Last(Linked(feats, n, repo, k))]

\* One decision of the loop, as it is taken: the issue, the record the lookup
\* returned for it (0 when none), the branch, this._repo and the instants.
Entry(issue, ex, action, feature, repo) ==
  [number |-> issue.number, existing |-> ex, action |-> action, repo |-> repo,
   state |-> issue.state, assignee |-> issue.assignee,
   updated_at |-> issue.updated_at,
   modified |-> IF ex = 0 THEN NoTime ELSE feature.modified,
   syncedAt |-> IF ex = 0 THEN NoTime ELSE feature.github.syncedAt]

\* The for loop of sync() from the current issue up to the next await (the
\* PATCH of a PUSH decision, left in pending) or to the end of the list.
RECURSIVE RunLoop(_, _, _, _)
RunLoop(st, repo, login, t) ==
  IF st.rest = <<>> THEN st
  ELSE
    LET issue == Head(st.rest)
        ex == st.byNum[issue.number]
    IN  IF ex = 0
        THEN RunLoop([st EXCEPT
                        !.res.created = Append(@, _issueToFeature(issue, repo, login, t)),
                        !.trace = Append(@, Entry(issue, 0, "CREATE", issue, repo)),
                        !.rest = Tail(@)],
                     repo, login, t)
        ELSE
          LET feature == st.feats[ex]
              action == Resolve(issue.updated_at, feature.github.syncedAt, feature.modified)
              logged == [st EXCEPT !.trace = Append(@, Entry(issue, ex, action, feature, repo))]
              consumed == [logged EXCEPT !.byNum[issue.number] = 0, !.rest = Tail(@)]
          IN  IF action = "PULL"
              THEN RunLoop([consumed EXCEPT
                              !.feats[ex] = _updateFeatureFromIssue(feature, issue, login, t),
                              !.res.updated = Append(@, ex)],
                           repo, login, t)
              ELSE IF action = "PUSH" /\ repo # NoRepo
              THEN [logged EXCEPT !.pending = ex]
              ELSE RunLoop(consumed, repo, login, t)

\* ----------------------------------------------------------------- sync()
Emit(c, status) == emitted' = [emitted EXCEPT ![c] = Append(@, status)]

\* A new sync() call: the slots are interchangeable, the lowest free one is
\* taken; a caller that awaits makes it when the previous call has returned.
NewCall(c) ==
  /\ pc[c] = "idle"
  /\ \A d \in Calls : d < c => pc[d] # "idle"
  /\ caller = "awaits" => \A d \in Calls : pc[d] = "idle"
  /\ callsLeft > 0

\* Line 64: the guard is set, the call returns at once.
SyncRejected(c) ==
  /\ NewCall(c)
  /\ _syncing
  /\ callsLeft' = callsLeft - 1
  /\ result' = [result EXCEPT ![c] = [EmptyResult EXCEPT !.errors = <<AlreadyInProgress>>]]
  /\ pc' = [pc EXCEPT ![c] = "done"]
  /\ UNCHANGED <<caller, _repo, _syncing, _currentUserLogin, now, features, remote, argLen, page,
                 issues, syncedByNumber, existing, patch, emitted, requests, warnings, trace>>
  /\ UNCHANGED <<fsvars, round, pfvars, received>>

\* Lines 68-69 with initialize() up to its first await: the setting
\* github.repo is read; when it is set _repo takes it and 'idle' is emitted
\* at once, when it is not the git remote is asked for.
SyncInitialize(c) ==
  /\ NewCall(c)
  /\ ~_syncing /\ _repo = NoRepo
  /\ callsLeft' = callsLeft - 1
  /\ argLen' = [argLen EXCEPT ![c] = Len(features)]
  /\ \E configRepo \in {NoRepo, ConfigRepo} :
       IF configRepo # NoRepo
       THEN /\ _repo' = configRepo
            /\ Emit(c, "idle")
            /\ pc' = [pc EXCEPT ![c] = "initialized"]
       ELSE /\ pc' = [pc EXCEPT ![c] = "detecting"]
            /\ UNCHANGED <<_repo, emitted>>
  /\ UNCHANGED <<caller, _syncing, _currentUserLogin, now, features, remote, page, issues,
                 syncedByNumber, existing, patch, result, requests, warnings, trace>>
  /\ UNCHANGED <<fsvars, round, pfvars, received>>

\* Lines 47-52: _detectRepo() resolves and initialize() stores what it found.
DetectRepo(c) ==
  /\ pc[c] = "detecting"
  /\ \E detected \in {NoRepo, ConfigRepo} :
       /\ _repo' = detected
       /\ IF detected # NoRepo THEN Emit(c, "idle") ELSE UNCHANGED emitted
  /\ pc' = [pc EXCEPT ![c] = "initialized"]
  /\ UNCHANGED <<_syncing, _currentUserLogin, now, features, caller, callsLeft, remote, argLen,
                 page, issues, syncedByNumber, existing, patch, result, requests, warnings, trace>>
  /\ UNCHANGED <<fsvars, round, pfvars, received>>

\* Lines 75-82: the guard is taken, 'syncing' is emitted and page 1 is asked for.
EnterPass(c) ==
  /\ _syncing' = TRUE
  /\ Emit(c, "syncing")
  /\ result' = [result EXCEPT ![c] = EmptyResult]
  /\ page' = [page EXCEPT ![c] = 1]
  /\ issues' = [issues EXCEPT ![c] = <<>>]
  /\ requests' = [requests EXCEPT ![c] = Append(@, <<"GET", 1>>)]
  /\ pc' = [pc EXCEPT ![c] = "fetching"]

\* Lines 64-82 when a repository is configured already.
SyncStart(c) ==
  /\ NewCall(c)
  /\ ~_syncing /\ _repo # NoRepo
  /\ callsLeft' = callsLeft - 1
  /\ argLen' = [argLen EXCEPT ![c] = Len(features)]
  /\ EnterPass(c)
  /\ UNCHANGED <<caller, _repo, _currentUserLogin, now, features, remote,
                 syncedByNumber, existing, patch, warnings, trace>>
  /\ UNCHANGED <<fsvars, round, pfvars, received>>

\* SyncResume without the test of line 70.
SyncResume_EntersPass(c) ==
  /\ pc[c] = "initialized"
  /\ EnterPass(c)
  /\ UNCHANGED <<_repo, _currentUserLogin, now, features, caller, callsLeft, remote, argLen,
                 syncedByNumber, existing, patch, warnings, trace>>
  /\ UNCHANGED <<fsvars, round, pfvars, received>>

\* Lines 70-82: sync() resumes after await initialize().
SyncResume(c) ==
  /\ pc[c] = "initialized"
  /\ IF _repo = NoRepo
     THEN /\ result' = [result EXCEPT ![c] = [EmptyResult EXCEPT !.errors = <<NoRepository>>]]
          /\ pc' = [pc EXCEPT ![c] = "done"]
          /\ UNCHANGED <<_syncing, emitted, page, issues, requests>>
     ELSE EnterPass(c)
  /\ UNCHANGED <<_repo, _currentUserLogin, now, features, caller, callsLeft, remote, argLen,
                 syncedByNumber, existing, patch, warnings, trace>>
  /\ UNCHANGED <<fsvars, round, pfvars, received>>

\* The catch of sync() emitting 'error' without recording the message.
Throw_DropsMessage(c, message) ==
  /\ result' = result
  /\ Emit(c, "error")
  /\ _syncing' = FALSE
  /\ pc' = [pc EXCEPT ![c] = "done"]

\* Throw without the finally of line 136.
Throw_KeepsGuard(c, message) ==
  /\ result' = [result EXCEPT ![c].errors = Append(@, message)]
  /\ Emit(c, "error")
  /\ _syncing' = _syncing
  /\ pc' = [pc EXCEPT ![c] = "done"]

\* Lines 131-139: catch, finally and return.
Throw(c, message) ==
  /\ result' = [result EXCEPT ![c].errors = Append(@, message)]
  /\ Emit(c, "error")
  /\ _syncing' = FALSE
  /\ pc' = [pc EXCEPT ![c] = "done"]

\* new Date(): the clock never runs backwards.
Clock(t) == t \in now..MaxTime /\ now' = t

\* Lines 92-139 from the state st of the loop: run it to its next await or
\* to the end, where 'success' is emitted, the guard released and result
\* returned.
Continue(c, st) ==
  LET out == RunLoop(st, _repo, _currentUserLogin', now')
  IN  /\ features' = out.feats
      /\ syncedByNumber' = [syncedByNumber EXCEPT ![c] = out.byNum]
      /\ result' = [result EXCEPT ![c] = out.res]
      /\ trace' = [trace EXCEPT ![c] = out.trace]
      /\ issues' = [issues EXCEPT ![c] = out.rest]
      /\ existing' = [existing EXCEPT ![c] = out.pending]
      /\ patch' = [patch EXCEPT ![c] = IF out.pending # 0 THEN PushBody(out.feats[out.pending])
                                     ELSE NoPatch]
      /\ IF out.pending # 0
         THEN /\ requests' = [requests EXCEPT ![c] =
                     Append(@, <<"PATCH", out.feats[out.pending].github.issueNumber>>)]
              /\ pc' = [pc EXCEPT ![c] = "pushing"]
              /\ UNCHANGED <<_syncing, emitted>>
         ELSE /\ Emit(c, "success")
              /\ _syncing' = FALSE
              /\ pc' = [pc EXCEPT ![c] = "done"]
              /\ UNCHANGED requests

\* _getSession (lines 208-215) as part of a request.
Session(head) ==
  _currentUserLogin' = IF head.session THEN Me ELSE _currentUserLogin

Filter(items) == SelectSeq(items, LAMBDA item : ~item.pull_request)

\* Lines 255-266 with _apiRequest: the answer to one page request fails the
\* pass.
FetchFails(c) ==
  /\ pc[c] = "fetching"
  /\ \E head \in ResponseHeads :
       /\ ApiOutcome(head) # "ok"
       /\ Session(head)
       /\ Throw(c, ApiOutcome(head))
  /\ UNCHANGED <<_repo, now, features, caller, callsLeft, remote, argLen, page, issues,
                 syncedByNumber, existing, patch, requests, warnings, trace>>
  /\ UNCHANGED <<fsvars, round, pfvars, received>>

\* The loop of _fetchIssues going on with a page that held fewer than 100
\* issues after the pull requests were filtered out.
MorePages_CountsIssues(data, p) ==
  ~(Len(Filter(data.items)) < PerPage) /\ p + 1 <= maxPages

\* Lines 255 and 265: the loop goes on to the next page when the page held
\* 100 items, pull requests included, and it was not the last page allowed.
MorePages(data, p) == ~(DataLength(data) < PerPage) /\ p + 1 <= maxPages

\* _fetchIssues handing the issues of a page to the loop as the page arrives:
\* the records of the page are created before the next page is asked for.
FetchNextPage_HandlesPage(c) ==
  /\ pc[c] = "fetching"
  /\ \E head \in ResponseHeads, data \in PageData(remote) :
       /\ ApiOutcome(head) = "ok"
       /\ Session(head)
       /\ MorePages(data, page[c])
       /\ issues' = [issues EXCEPT ![c] = @ \o Filter(data.items)]
       /\ received' = [received EXCEPT ![c] = Append(@, DataLength(data))]
       /\ result' = [result EXCEPT ![c].created =
                       @ \o [k \in 1..Len(Filter(data.items)) |->
                               _issueToFeature(Filter(data.items)[k], _repo,
                                               _currentUserLogin', now)]]
  /\ page' = [page EXCEPT ![c] = @ + 1]
  /\ requests' = [requests EXCEPT ![c] = Append(@, <<"GET", page[c] + 1>>)]
  /\ UNCHANGED <<_repo, _syncing, now, features, caller, callsLeft, remote,
                 pc, argLen, syncedByNumber, existing, patch, emitted, warnings, trace>>
  /\ UNCHANGED <<fsvars, round, pfvars>>

\* Lines 255-266: a page arrives and the next page is asked for.
FetchNextPage(c) ==
  /\ pc[c] = "fetching"
  /\ \E head \in ResponseHeads, data \in PageData(remote) :
       /\ ApiOutcome(head) = "ok"
       /\ Session(head)
       /\ MorePages(data, page[c])
       /\ issues' = [issues EXCEPT ![c] = @ \o Filter(data.items)]
       /\ received' = [received EXCEPT ![c] = Append(@, DataLength(data))]
  /\ page' = [page EXCEPT ![c] = @ + 1]
  /\ requests' = [requests EXCEPT ![c] = Append(@, <<"GET", page[c] + 1>>)]
  /\ UNCHANGED <<_repo, _syncing, now, features, caller, callsLeft, remote,
                 pc, argLen, syncedByNumber, existing, patch, result, emitted, warnings, trace>>
  /\ UNCHANGED <<fsvars, round, pfvars>>

\* Lines 255-128: the last page arrives, the lookup is built and the loop
\* runs.
FetchDone(c) ==
  /\ pc[c] = "fetching"
  /\ \E head \in ResponseHeads, data \in PageData(remote) :
       /\ ApiOutcome(head) = "ok"
       /\ Session(head)
       /\ ~MorePages(data, page[c])
       /\ received' = [received EXCEPT ![c] = Append(@, DataLength(data))]
       /\ \E t \in Times : Clock(t)
       /\ Continue(c, [feats |-> features,
                       byNum |-> BuildLookup(features, argLen[c], _repo),
                       res |-> result[c],
                       trace |-> trace[c],
                       rest |-> issues[c] \o Filter(data.items),
                       pending |-> 0])
  /\ UNCHANGED <<_repo, caller, callsLeft, remote, argLen, page, warnings>>
  /\ UNCHANGED <<fsvars, round, pfvars>>

\* The state of the loop when _pushFeatureToGitHub returns: line 126 runs
\* and the loop goes on with the next issue.
AfterPush(c, feats, pushed) ==
  [feats |-> feats,
   byNum |-> [syncedByNumber[c] EXCEPT ![Head(issues[c]).number] = 0],
   res |-> [result[c] EXCEPT !.pushed = IF pushed THEN Append(@, existing[c]) ELSE @],
   trace |-> trace[c],
   rest |-> Tail(issues[c]),
   pending |-> 0]

\* Lines 353-354 and 113: the PATCH succeeded.
PushSucceeds(c) ==
  /\ pc[c] = "pushing"
  /\ \E head \in ResponseHeads :
       /\ ApiOutcome(head) = "ok"
       /\ Session(head)
       /\ \E t \in Times : Clock(t)
       /\ Continue(c, AfterPush(c, [features EXCEPT ![existing[c]].github.syncedAt = now'],
                                TRUE))
       /\ remote' = [remote EXCEPT ![Head(issues[c]).number] = Patched(@, patch[c], now')]
  /\ UNCHANGED <<_repo, caller, callsLeft, argLen, page, warnings>>
  /\ UNCHANGED <<fsvars, round, pfvars, received>>

\* _pushFeatureToGitHub sending the PATCH again when it failed.
PushFails_Retries(c) ==
  /\ pc[c] = "pushing"
  /\ \E head \in ResponseHeads :
       /\ ApiOutcome(head) # "ok"
       /\ Session(head)
       /\ warnings' = [warnings EXCEPT ![c] = Append(@, ApiOutcome(head))]
  /\ requests' = [requests EXCEPT ![c] = Append(@, <<"PATCH", Head(issues[c]).number>>)]
  /\ UNCHANGED <<_repo, _syncing, now, features, caller, callsLeft, remote, pc, argLen, page,
                 issues, syncedByNumber, existing, patch, result, emitted, trace>>
  /\ UNCHANGED <<fsvars, round, pfvars, received>>

\* PushFails with syncedAt written although the PATCH failed.
PushFails_MarksSynced(c) ==
  /\ pc[c] = "pushing"
  /\ \E head \in ResponseHeads :
       /\ ApiOutcome(head) # "ok"
       /\ Session(head)
       /\ warnings' = [warnings EXCEPT ![c] = Append(@, ApiOutcome(head))]
       /\ \E t \in Times : Clock(t)
       /\ Continue(c, AfterPush(c, [features EXCEPT ![existing[c]].github.syncedAt = now'],
                                FALSE))
  /\ UNCHANGED <<_repo, caller, callsLeft, remote, argLen, page>>
  /\ UNCHANGED <<fsvars, round, pfvars, received>>

\* Lines 355-359: the PATCH failed; the error is shown as a warning and
\* _pushFeatureToGitHub returns false.
PushFails(c) ==
  /\ pc[c] = "pushing"
  /\ \E head \in ResponseHeads :
       /\ ApiOutcome(head) # "ok"
       /\ Session(head)
       /\ warnings' = [warnings EXCEPT ![c] = Append(@, ApiOutcome(head))]
       /\ \E t \in Times : Clock(t)
       /\ Continue(c, AfterPush(c, features, FALSE))
  /\ UNCHANGED <<_repo, caller, callsLeft, remote, argLen, page>>
  /\ UNCHANGED <<fsvars, round, pfvars, received>>

\* ------------------------------------------------------------ environment
\* The caller receives the result of sync() and stores the created records.
Return(c) ==
  /\ pc[c] = "done"
  /\ features' = features \o result[c].created
  /\ pc' = [pc EXCEPT ![c] = "idle"]
  /\ argLen' = [argLen EXCEPT ![c] = 0]
  /\ page' = [page EXCEPT ![c] = 0]
  /\ issues' = [issues EXCEPT ![c] = <<>>]
  /\ syncedByNumber' = [syncedByNumber EXCEPT ![c] = EmptyLookup]
  /\ existing' = [existing EXCEPT ![c] = 0]
  /\ patch' = [patch EXCEPT ![c] = NoPatch]
  /\ result' = [result EXCEPT ![c] = EmptyResult]
  /\ emitted' = [emitted EXCEPT ![c] = <<>>]
  /\ requests' = [requests EXCEPT ![c] = <<>>]
  /\ warnings' = [warnings EXCEPT ![c] = <<>>]
  /\ trace' = [trace EXCEPT ![c] = <<>>]
  /\ UNCHANGED <<_repo, _syncing, _currentUserLogin, now, caller, callsLeft, remote>>
  /\ received' = [received EXCEPT ![c] = <<>>]
  /\ UNCHANGED <<fsvars, round, pfvars>>

\* ------------------------------------------------------- moveFeatureFile
\* The files on disk when a sequence of moves starts: up to MaxFiles files
\* with different contents, in the status folders, named abc.md or abc-k.md.
InitialPaths ==
  {Path(dir, name) : dir \in Folders, name \in {<<>>} \cup {<<k>> : k \in 1..MaxSuffix}}

Disk(placed) == [p \in Range(placed) |-> CHOOSE i \in DOMAIN placed : placed[i] = p]

MoveInit ==
  /\ Start(Overlapping, "awaits", 0)
  /\ \E n \in 1..MaxFiles : \E placed \in [1..n -> InitialPaths] :
       /\ \A i, j \in 1..n : placed[i] = placed[j] => i = j
       /\ files = Disk(placed)
  /\ movesLeft = MaxMoves
  /\ MoveIdle
  /\ asked = NoLookup
  /\ round = NoRound
  /\ NoPushFeature

\* Lines 60-67: stat answers for a file that is there; any error of stat
\* (the file is not there, or it cannot be read) is taken as "not there".
fileExists(filePath, statFails) == filePath \in DOMAIN files /\ ~statFails

\* moveFeatureFile without the test of line 35: the search for a free name
\* starts also when the file is in the folder of newStatus already.
MoveCall_SearchesAnyway ==
  /\ mpc = "idle"
  /\ movesLeft > 0
  /\ movesLeft' = movesLeft - 1
  /\ \E path \in DOMAIN files, newStatus \in Folders :
       /\ currentPath' = path
       /\ moving' = files[path]
       /\ targetPath' = Path(newStatus, path.name)
       /\ counter' = 1
       /\ mpc' = "fileExists" /\ outcome' = NoOutcome
  /\ ops' = <<>>
  /\ UNCHANGED <<files, syncvars, round, pfvars, asked>>

\* Lines 31-35: the target is computed; the call returns at once when the
\* file is in the folder of newStatus already.
MoveCall ==
  /\ mpc = "idle"
  /\ movesLeft > 0
  /\ movesLeft' = movesLeft - 1
  /\ \E path \in DOMAIN files, newStatus \in Folders :
       /\ currentPath' = path
       /\ moving' = files[path]
       /\ targetPath' = Path(newStatus, path.name)
       /\ counter' = 1
       /\ IF path = Path(newStatus, path.name)
          THEN mpc' = "idle" /\ outcome' = [path |-> path, error |-> ""]
          ELSE mpc' = "fileExists" /\ outcome' = NoOutcome
  /\ ops' = <<>>
  /\ UNCHANGED <<files, syncvars, round, pfvars, asked>>

\* The while loop counting on before it builds the next name, so that every
\* turn passes over one candidate.
FileExists_SkipsCandidate ==
  /\ mpc = "fileExists"
  /\ \E statFails \in BOOLEAN :
       IF fileExists(targetPath, statFails)
       THEN /\ targetPath' = Path(targetPath.dir, Append(currentPath.name, counter + 1))
            /\ counter' = counter + 2
            /\ UNCHANGED mpc
       ELSE /\ mpc' = "createDirectory"
            /\ UNCHANGED <<targetPath, counter>>
  /\ ops' = Append(ops, <<"stat", targetPath>>)
  /\ UNCHANGED <<files, movesLeft, currentPath, moving, outcome, syncvars, round, pfvars, asked>>

\* Lines 40-43: one turn of the while loop.
FileExists ==
  /\ mpc = "fileExists"
  /\ \E statFails \in BOOLEAN :
       IF fileExists(targetPath, statFails)
       THEN /\ targetPath' = Path(targetPath.dir, Append(currentPath.name, counter))
            /\ counter' = counter + 1
            /\ UNCHANGED mpc
       ELSE /\ mpc' = "createDirectory"
            /\ UNCHANGED <<targetPath, counter>>
  /\ ops' = Append(ops, <<"stat", targetPath>>)
  /\ UNCHANGED <<files, movesLeft, currentPath, moving, outcome, syncvars, round, pfvars, asked>>

\* Line 45: the folder is created if absent, or the error is thrown.
CreateDirectory ==
  /\ mpc = "createDirectory"
  /\ \E created \in BOOLEAN :
       IF created
       THEN mpc' = "rename" /\ UNCHANGED outcome
       ELSE mpc' = "idle" /\ outcome' = [path |-> NoPath, error |-> "createDirectory"]
  /\ ops' = Append(ops, <<"createDirectory", targetPath.dir>>)
  /\ UNCHANGED <<files, movesLeft, currentPath, targetPath, counter, moving, syncvars, round,
                 pfvars, asked>>

\* The files after workspace.fs.rename moved source to target.
Renamed(source, target) ==
  [p \in (DOMAIN files \ {source}) \cup {target} |->
     IF p = target THEN files[source] ELSE files[p]]

\* Rename called with overwrite: true.
Rename_Overwrites ==
  /\ mpc = "rename"
  /\ \E renamed \in BOOLEAN :
       IF renamed /\ currentPath \in DOMAIN files
       THEN /\ files' = Renamed(currentPath, targetPath)
            /\ outcome' = [path |-> targetPath, error |-> ""]
       ELSE /\ outcome' = [path |-> NoPath, error |-> "rename"]
            /\ UNCHANGED files
  /\ mpc' = "idle"
  /\ ops' = Append(ops, <<"rename", currentPath, targetPath>>)
  /\ UNCHANGED <<movesLeft, currentPath, targetPath, counter, moving, syncvars, round, pfvars,
                 asked>>

\* Rename as a copy whose source is not removed.
Rename_Copies ==
  /\ mpc = "rename"
  /\ \E renamed \in BOOLEAN :
       IF renamed /\ currentPath \in DOMAIN files /\ targetPath \notin DOMAIN files
       THEN /\ files' = [p \in DOMAIN files \cup {targetPath} |->
                          IF p = targetPath THEN files[currentPath] ELSE files[p]]
            /\ outcome' = [path |-> targetPath, error |-> ""]
       ELSE /\ outcome' = [path |-> NoPath, error |-> "rename"]
            /\ UNCHANGED files
  /\ mpc' = "idle"
  /\ ops' = Append(ops, <<"rename", currentPath, targetPath>>)
  /\ UNCHANGED <<movesLeft, currentPath, targetPath, counter, moving, syncvars, round, pfvars,
                 asked>>

\* Lines 46-48: workspace.fs.rename (overwrite is false by default) moves the
\* file in one step and targetPath is returned, or it throws (the source is
\* gone, the target exists, the file system refuses) and nothing has moved.
Rename ==
  /\ mpc = "rename"
  /\ \E renamed \in BOOLEAN :
       IF renamed /\ currentPath \in DOMAIN files /\ targetPath \notin DOMAIN files
       THEN /\ files' = Renamed(currentPath, targetPath)
            /\ outcome' = [path |-> targetPath, error |-> ""]
       ELSE /\ outcome' = [path |-> NoPath, error |-> "rename"]
            /\ UNCHANGED files
  /\ mpc' = "idle"
  /\ ops' = Append(ops, <<"rename", currentPath, targetPath>>)
  /\ UNCHANGED <<movesLeft, currentPath, targetPath, counter, moving, syncvars, round, pfvars,
                 asked>>

MoveNext == MoveCall \/ FileExists \/ CreateDirectory \/ Rename

MoveSpec == MoveInit /\ [][MoveNext]_vars

\* The event loop runs every continuation that is ready: a search that can
\* take a turn takes it.
MoveFairSpec == MoveSpec /\ WF_vars(FileExists)

\* ------------------------------------------------- push and pull of a text
\* The characters the contents are made of: the heading mark, the two kinds
\* of white space and a letter.
Characters == {"#", " ", "\n", "a"}

\* A record linked to issue 1 of the configured repository, with any content
\* of up to MaxContent characters, open or done.
RoundInit ==
  /\ Start(Overlapping, "awaits", 0)
  /\ NoMoves
  /\ NoPushFeature
  /\ \E content \in SeqsUpTo(Characters, MaxContent), status \in {"todo", "done"} :
       round = [stage |-> "local",
                feature |-> [InitialFeatures(1, 0)[1] EXCEPT !.content = content,
                                                             !.status = status],
                issue |-> InitialIssue(1)]

\* Lines 334-354: the PATCH carries title, body and state and GitHub stores
\* them as sent.
RoundPush ==
  /\ round.stage = "local"
  /\ round' = [round EXCEPT !.stage = "pushed",
                            !.issue = Patched(@, PushBody(round.feature), now),
                            !.feature.github.syncedAt = now]
  /\ UNCHANGED <<syncvars, fsvars, pfvars>>

\* Lines 309-332: the issue is read back as it was stored.
RoundPull ==
  /\ round.stage = "pushed"
  /\ round' = [round EXCEPT !.stage = "pulled",
                            !.feature = _updateFeatureFromIssue(@, round.issue,
                                                                _currentUserLogin, now)]
  /\ UNCHANGED <<syncvars, fsvars, pfvars>>

RoundNext == RoundPush \/ RoundPull

\* ------------------------------------------------- CREATE and PULL alone
FeatureStatuses == {"backlog", "todo", "in-progress", "review", "done"}

\* A fetched issue, open or closed, assigned or not, and the record linked
\* to it, of any status, completed at an earlier instant when it is done;
\* the user is known or not.
ApplyInit ==
  /\ Start(Overlapping, "awaits", 0)
  /\ NoMoves
  /\ NoPushFeature
  /\ \E status \in FeatureStatuses, completedAt \in 0..(MaxTime - 1), assignee \in Logins,
        state \in States, login \in {NoLogin, Me}, localAssignee \in Logins,
        labels \in {<<>>, <<"bug">>} :
       round = [stage |-> "fetched",
                login |-> login,
                feature |-> [InitialFeatures(0, 0)[1] EXCEPT
                               !.status = status,
                               !.assignee = localAssignee,
                               !.completedAt = IF status = "done" THEN completedAt
                                               ELSE NoTime],
                issue |-> [InitialIssue(1) EXCEPT !.state = state, !.assignee = assignee,
                                                  !.labels = labels,
                                                  !.updated_at = MaxTime]]

\* Lines 97-98: no record is linked to the issue; one is created.
ApplyCreate ==
  /\ round.stage = "fetched"
  /\ round' = [round EXCEPT !.stage = "created",
                            !.feature = _issueToFeature(round.issue, ConfigRepo,
                                                        round.login, now)]
  /\ UNCHANGED <<syncvars, fsvars, pfvars>>

\* Lines 108-110 and 115-117: the issue is pulled onto the record.
ApplyPull ==
  /\ round.stage = "fetched"
  /\ round' = [round EXCEPT !.stage = "pulledOnto",
                            !.feature = _updateFeatureFromIssue(@, round.issue,
                                                                round.login, now)]
  /\ UNCHANGED <<syncvars, fsvars, pfvars>>

ApplyNext == ApplyCreate \/ ApplyPull

ApplySpec == ApplyInit /\ [][ApplyNext]_vars

RoundSpec == RoundInit /\ [][RoundNext]_vars

\* ------------------------------------------------------------ pushFeature
\* The record was edited after its last sync; the clock can still advance;
\* sync() is called twice and the panel calls pushFeature MaxPushes times,
\* at any moment.
Pushing ==
  [now |-> 1, modified |-> 1, syncedAt |-> 0, remote |-> [k \in {1} |-> InitialIssue(k)]]

PushFeatureInit ==
  /\ Start(Pushing, "overlaps", MaxCalls)
  /\ NoMoves
  /\ round = NoRound
  /\ pushing = NoPush
  /\ pushesLeft = MaxPushes
  /\ shown = <<>>

\* Lines 142-149 and 334-350: pushFeature returns at once when no repository
\* is set or the record has no link; otherwise the PATCH for the record is
\* sent to the repository set, whatever repository the record is linked to.
pushFeature ==
  /\ pushesLeft > 0
  /\ pushing = NoPush
  /\ pushesLeft' = pushesLeft - 1
  /\ \E i \in 1..Len(features) :
       pushing' = IF _repo = NoRepo \/ ~HasGithub(features[i]) THEN NoPush
                  ELSE [feature |-> i, number |-> features[i].github.issueNumber,
                        patch |-> PushBody(features[i])]
  /\ UNCHANGED <<syncvars, fsvars, round, shown>>

\* pushFeature storing the instant of the record's last edit.
PushFeatureSucceeds_StoresModified ==
  /\ pushing # NoPush
  /\ pushing.number \in DOMAIN remote
  /\ \E head \in ResponseHeads :
       /\ ApiOutcome(head) = "ok"
       /\ Session(head)
  /\ \E t \in Times : Clock(t)
  /\ features' = [features EXCEPT ![pushing.feature].github.syncedAt =
                                    features[pushing.feature].modified]
  /\ remote' = [remote EXCEPT ![pushing.number] = Patched(@, pushing.patch, now')]
  /\ pushing' = NoPush
  /\ UNCHANGED <<_repo, _syncing, caller, callsLeft, pc, locals>>
  /\ UNCHANGED <<fsvars, round, pushesLeft, shown>>

\* Lines 346-354: the PATCH succeeded; syncedAt is the instant of the answer.
PushFeatureSucceeds ==
  /\ pushing # NoPush
  /\ pushing.number \in DOMAIN remote
  /\ \E head \in ResponseHeads :
       /\ ApiOutcome(head) = "ok"
       /\ Session(head)
  /\ \E t \in Times : Clock(t)
  /\ features' = [features EXCEPT ![pushing.feature].github.syncedAt = now']
  /\ remote' = [remote EXCEPT ![pushing.number] = Patched(@, pushing.patch, now')]
  /\ pushing' = NoPush
  /\ UNCHANGED <<_repo, _syncing, caller, callsLeft, pc, locals>>
  /\ UNCHANGED <<fsvars, round, pushesLeft, shown>>

\* Lines 355-359: the PATCH failed (no session, an error status, no such
\* issue); the error is shown as a warning and the record is as it was.
PushFeatureFails ==
  /\ pushing # NoPush
  /\ \E head \in ResponseHeads :
       /\ ApiOutcome(head) # "ok" \/ pushing.number \notin DOMAIN remote
       /\ Session(head)
       /\ shown' = Append(shown, IF ApiOutcome(head) # "ok" THEN ApiOutcome(head)
                                 ELSE "GitHub API request failed")
  /\ \E t \in Times : Clock(t)
  /\ pushing' = NoPush
  /\ UNCHANGED <<_repo, _syncing, features, caller, callsLeft, remote, pc, locals>>
  /\ UNCHANGED <<fsvars, round, pushesLeft>>

\* ------------------------------------------- getFeatureFilePath and back
\* The segments the paths are made of: the workspace, the features
\* directory, two status folders, a folder that is no status folder, a file.
Segments == {"ws", "features", "todo", "done", "archive", "abc.md"}

\* Any path of up to MaxDepth segments is given to getStatusFromPath, or a
\* status and a file name are given to getFeatureFilePath first.
PathInit ==
  /\ Start(Overlapping, "awaits", 0)
  /\ files = RecordFiles
  /\ movesLeft = 0
  /\ MoveIdle
  /\ round = NoRound
  /\ NoPushFeature
  /\ \/ \E filePath \in SeqsUpTo(Segments, MaxDepth) :
          asked = [stage |-> "path", filePath |-> filePath, status |-> NoStatus,
                   answer |-> NoStatus]
     \/ \E status \in FeatureStatuses, filename \in {"abc", "abc-1"} :
          asked = [stage |-> "status", filePath |-> <<>>, status |-> status,
                   filename |-> filename, answer |-> NoStatus]

\* Lines 15-17
LocateFile ==
  /\ asked.stage = "status"
  /\ asked' = [asked EXCEPT !.stage = "located",
                            !.filePath = getFeatureFilePath(FeaturesDir, asked.status,
                                                            asked.filename)]
  /\ UNCHANGED <<syncvars, files, movesLeft, mpc, currentPath, targetPath, counter, moving,
                 outcome, ops, round, pfvars>>

\* Lines 51-58
LookupStatus ==
  /\ asked.stage \in {"path", "located"}
  /\ asked' = [asked EXCEPT !.stage = IF asked.stage = "path" THEN "answered" ELSE "inverted",
                            !.answer = getStatusFromPath(asked.filePath, FeaturesDir)]
  /\ UNCHANGED <<syncvars, files, movesLeft, mpc, currentPath, targetPath, counter, moving,
                 outcome, ops, round, pfvars>>

PathNext == LocateFile \/ LookupStatus

PathSpec == PathInit /\ [][PathNext]_vars

Next ==
  \/ \E c \in Calls : SyncRejected(c)
  \/ \E c \in Calls : SyncInitialize(c)
  \/ \E c \in Calls : DetectRepo(c)
  \/ \E c \in Calls : SyncStart(c)
  \/ \E c \in Calls : SyncResume(c)
  \/ \E c \in Calls : FetchFails(c)
  \/ \E c \in Calls : FetchNextPage(c)
  \/ \E c \in Calls : FetchDone(c)
  \/ \E c \in Calls : PushSucceeds(c)
  \/ \E c \in Calls : PushFails(c)
  \/ \E c \in Calls : Return(c)

Spec == Init /\ [][Next]_vars

PushFeatureNext ==
  \/ Next
  \/ pushFeature
  \/ PushFeatureSucceeds
  \/ PushFeatureFails

PushFeatureSpec == PushFeatureInit /\ [][PushFeatureNext]_vars

\* The responses arrive: every request is answered or fails.
FetchResponse(c) == FetchFails(c) \/ FetchNextPage(c) \/ FetchDone(c)
PushResponse(c) == PushSucceeds(c) \/ PushFails(c)

FairSpec ==
  /\ Spec
  /\ \A c \in Calls : WF_vars(FetchResponse(c)) /\ WF_vars(PushResponse(c))

\* ------------------------------------------------------------ vocabulary
\* A pass is in flight from line 75 to the finally of line 136.
InFlight(c) == pc[c] \in {"fetching", "pushing"}

\* The statuses a call emitted as sync() itself (initialize() emits 'idle').
Statuses(c) == SelectSeq(emitted[c], LAMBDA status : status # "idle")

\* The PATCH requests of call c, as the issue numbers they name.
Patches(c) == SelectSeq(requests[c], LAMBDA request : request[1] = "PATCH")

\* ----------------------------------------------------------------- properties

\* C1: at most one pass is in flight at a time on one GitHubService, for
\* every interleaving of sync() calls, also of two calls made while no
\* repository is configured.
C1_AtMostOnePassInFlight ==
  \A c, d \in Calls : InFlight(c) /\ InFlight(d) => c = d

\* C2: a sync() call made while another pass is in flight is a no-op: it
\* returns only the 'already in progress' error, sends no request, mutates no
\* record, emits no status and leaves the guard as it is.
C2_CallDuringPassIsNoOp ==
  [][\A c \in Calls :
       (pc[c] = "idle" /\ pc'[c] # "idle" /\ \E d \in Calls : d # c /\ InFlight(d))
       => /\ pc'[c] = "done"
          /\ result'[c] = [EmptyResult EXCEPT !.errors = <<AlreadyInProgress>>]
          /\ requests'[c] = <<>>
          /\ emitted'[c] = <<>>
          /\ features' = features
          /\ _syncing' = _syncing]_vars

\* C3: every pass that enters Syncing leaves it: it emits 'syncing', then
\* exactly one of 'success' and 'error'; the step that ends it releases the
\* guard, after a fetch error as after a success; the guard is never set when
\* no pass is running; and, every request being answered, the call returns.
C3_EveryPassLeavesSyncing ==
  /\ [](\A c \in Calls :
          /\ InFlight(c) => Statuses(c) = <<"syncing">>
          /\ (pc[c] = "done" /\ Statuses(c) # <<>>)
             => Statuses(c) \in {<<"syncing", "success">>, <<"syncing", "error">>})
  /\ [](_syncing => \E c \in Calls : InFlight(c))
  /\ [][\A c \in Calls : (InFlight(c) /\ pc'[c] = "done") => ~_syncing']_vars
  /\ \A c \in Calls : InFlight(c) ~> (pc[c] = "done")

C3_Witness ==
  \E c \in Calls :
    /\ pc[c] = "done"
    /\ Statuses(c) = <<"syncing", "error">>
    /\ requests[c] = <<<<"GET", 1>>>>
    /\ ~_syncing

\* C4: for a record whose issue was fetched, the action taken is the one of
\* the decision table over (updated_at, modified, syncedAt): SKIP when
\* neither is later than syncedAt, PULL when only the remote is, PUSH when
\* only the local is, and with both later PULL if updated_at >= modified,
\* PUSH otherwise; the pulled records are the ones listed in updated and the
\* pushes are the PATCH requests sent.
Table(updated_at, modified, syncedAt) ==
  LET remoteLater == updated_at > syncedAt
      localLater == modified > syncedAt
  IN  CASE ~remoteLater /\ ~localLater -> "SKIP"
        [] remoteLater /\ ~localLater -> "PULL"
        [] ~remoteLater /\ localLater -> "PUSH"
        [] remoteLater /\ localLater -> IF updated_at >= modified THEN "PULL" ELSE "PUSH"

Decided(c) == SelectSeq(trace[c], LAMBDA e : e.existing # 0)

C4_DecisionTable ==
  \A c \in Calls :
    /\ \A e \in Range(Decided(c)) : e.action = Table(e.updated_at, e.modified, e.syncedAt)
    /\ result[c].updated
         = [k \in 1..Len(SelectSeq(Decided(c), LAMBDA e : e.action = "PULL")) |->
              SelectSeq(Decided(c), LAMBDA e : e.action = "PULL")[k].existing]
    /\ _repo # NoRepo
         => [k \in 1..Len(Patches(c)) |-> Patches(c)[k][2]]
              = [k \in 1..Len(SelectSeq(Decided(c), LAMBDA e : e.action = "PUSH")) |->
                   SelectSeq(Decided(c), LAMBDA e : e.action = "PUSH")[k].number]

C4_Witness ==
  \E c \in Calls : \E e \in Range(trace[c]) :
    /\ e.existing # 0
    /\ e.updated_at > e.syncedAt /\ e.modified > e.syncedAt
    /\ e.updated_at = e.modified
    /\ e.action = "PULL"
    /\ result[c].updated = <<e.existing>>

\* C5: a pass mutates and pushes only records linked to the repository
\* configured when the pass decides on them, whose issue number is in the
\* list the pass fetched: every step
\* that changes a record, and every PATCH sent, is the step of a pass in
\* flight and concerns such a record; records with no link, records of
\* another repository and linked records that were not fetched keep every
\* field and cause no PATCH.
Fetched(c) ==
  {e.number : e \in Range(trace'[c])} \cup {issue.number : issue \in Range(issues'[c])}

Acts(c) == InFlight(c) /\ (pc'[c] # pc[c] \/ issues'[c] # issues[c])

InScope(c, i) ==
  /\ HasGithub(features[i])
  /\ features[i].github.issueNumber \in Fetched(c)
  /\ \E e \in Range(trace'[c]) :
       /\ e.existing = i
       /\ e.number = features[i].github.issueNumber
       /\ e.repo = features[i].github.repo

C5_OnlyLinkedFetchedRecords ==
  [][/\ \A i \in 1..Len(features) :
          features'[i] # features[i] => \E c \in Calls : Acts(c) /\ InScope(c, i)
     /\ \A c \in Calls :
          (Len(requests'[c]) > Len(requests[c]) /\ requests'[c][Len(requests'[c])][1] = "PATCH")
          => /\ Acts(c) /\ InScope(c, existing'[c])
             /\ requests'[c][Len(requests'[c])][2] = features[existing'[c]].github.issueNumber
    ]_vars

C5_Witness ==
  \E c \in Calls :
    /\ pc[c] = "done"
    /\ \E e \in Range(trace[c]) : e.number = 1 /\ e.existing = 1 /\ e.action = "PULL"
    /\ features[1].content = <<"#", " ", "r">>
    /\ features[2] = InitialFeatures(0, 0)[2]
    /\ features[3] = InitialFeatures(0, 0)[3]
    /\ Patches(c) = <<>>

\* C6: for a linked record with issue.updated_at <= syncedAt and
\* modified <= syncedAt when the pass decides on it, the pass performs no
\* mutation of the record (no step of the pass changes any of its fields),
\* sends no PATCH for it, adds no record to created for it and lists it in
\* neither updated nor pushed.
NothingLater(e) ==
  e.existing # 0 /\ e.updated_at <= e.syncedAt /\ e.modified <= e.syncedAt

Creations(c) == {k \in (Len(trace[c]) + 1)..Len(trace'[c]) : trace'[c][k].existing = 0}

C6_NoChangeNoMutation ==
  /\ [](\A c \in Calls : \A e \in Range(trace[c]) :
          NothingLater(e)
          => /\ e.existing \notin Range(result[c].updated) \cup Range(result[c].pushed)
             /\ existing[c] # e.existing
             /\ e.number \notin Range([k \in 1..Len(Patches(c)) |-> Patches(c)[k][2]]))
  /\ [][\A c \in Calls :
          Acts(c)
          => /\ Len(result'[c].created) = Len(result[c].created) + Cardinality(Creations(c))
             /\ \A e \in Range(trace'[c]) :
                  NothingLater(e) => features'[e.existing] = features[e.existing]]_vars

C6_Witness ==
  \E c \in Calls : \E e \in Range(trace[c]) :
    /\ pc[c] = "done"
    /\ NothingLater(e) /\ e.existing = 1 /\ e.syncedAt > 0
    /\ features[1] = InitialFeatures(e.modified, e.syncedAt)[1]
    /\ result[c] = EmptyResult
    /\ Statuses(c) = <<"syncing", "success">>

\* C7: for every fetched issue with no local record linked to it in the
\* configured repository, the pass creates exactly one record, with the
\* issueNumber and repo of that issue, syncedAt equal to the creation instant,
\* and status 'done' if the issue is closed, 'todo' if it is open and
\* assigned to the authenticated user, 'backlog' otherwise.
CreatedFor(c, n) ==
  {k \in 1..Len(result[c].created) : result[c].created[k].github.issueNumber = n}

C7_ExactlyOneRecordCreated ==
  \A c \in Calls :
    pc[c] = "done"
    => \A e \in Range(trace[c]) :
         (\A f \in Range(trace[c]) : f.number = e.number => f.existing = 0)
         => /\ Cardinality(CreatedFor(c, e.number)) = 1
            /\ \A k \in CreatedFor(c, e.number) :
                 LET feature == result[c].created[k]
                 IN  /\ feature.github.repo = e.repo
                     /\ feature.github.syncedAt = feature.modified
                     /\ feature.status = IF e.state = "closed" THEN "done"
                                         ELSE IF e.assignee = Me THEN "todo"
                                         ELSE "backlog"

\* C8: the caller adding every created record to the local set, no two
\* local records carry the same (github.repo, github.issueNumber) pair, also
\* when the fetched list holds one issue number more than once.
C8_OneRecordPerIssue ==
  \A i, j \in 1..Len(features) :
    (/\ HasGithub(features[i]) /\ HasGithub(features[j])
     /\ features[i].github.repo = features[j].github.repo
     /\ features[i].github.issueNumber = features[j].github.issueNumber)
    => i = j

\* C9: in the result of one pass the created, updated and pushed lists are
\* disjoint and duplicate-free by issue number.
Listed(c) ==
  [k \in 1..Len(result[c].created) |-> result[c].created[k].github.issueNumber]
  \o [k \in 1..Len(result[c].updated) |-> features[result[c].updated[k]].github.issueNumber]
  \o [k \in 1..Len(result[c].pushed) |-> features[result[c].pushed[k]].github.issueNumber]

C9_ListsDisjoint ==
  \A c \in Calls : \A k, l \in 1..Len(Listed(c)) : Listed(c)[k] = Listed(c)[l] => k = l

\* C10: when the PATCH for a record fails with a non-success API response,
\* the failure is appended to result.errors of the pass, the record is not
\* listed in pushed, and every later fetched issue is still resolved and
\* applied in the same pass.
ApiFailures == {"GitHub API rate limit exceeded", "GitHub API request failed"}

C10_PushFailureIsRecorded ==
  [][\A c \in Calls :
       (/\ pc[c] = "pushing"
        /\ Len(warnings'[c]) > Len(warnings[c])
        /\ warnings'[c][Len(warnings'[c])] \in ApiFailures)
       => /\ warnings'[c][Len(warnings'[c])] \in Range(result'[c].errors)
          /\ existing[c] \notin Range(result'[c].pushed)
          /\ pc'[c] = "done" => issues'[c] = <<>>]_vars

\* C11: a PUSH that succeeds sets the record's syncedAt to now and changes no
\* other field; a PUSH that fails leaves syncedAt and every other field of
\* the record unchanged, so that, neither side having changed since the
\* decision, the decision table still says PUSH for the record.
PushAnswered(c) == pc[c] = "pushing" /\ (pc'[c] # "pushing" \/ issues'[c] # issues[c])

PushFailed(c) == PushAnswered(c) /\ Len(warnings'[c]) > Len(warnings[c])

AsDecided(c) ==
  LET e == trace[c][Len(trace[c])]
      feature == features[existing[c]]
  IN  /\ feature.modified = e.modified
      /\ feature.github.syncedAt = e.syncedAt
      /\ remote[e.number].updated_at = e.updated_at

C11_FailedPushIsRetried ==
  [][\A c \in Calls :
       PushAnswered(c)
       => LET i == existing[c]
          IN  IF PushFailed(c)
              THEN /\ features'[i] = features[i]
                   /\ i \notin Range(result'[c].pushed)
                   /\ AsDecided(c)
                      => Table(remote'[features'[i].github.issueNumber].updated_at,
                               features'[i].modified, features'[i].github.syncedAt) = "PUSH"
              ELSE /\ features'[i] = [features[i] EXCEPT !.github.syncedAt = now']
                   /\ i \in Range(result'[c].pushed)]_vars

C11_Witness ==
  \E c \in Calls :
    /\ pc[c] = "done"
    /\ warnings[c] # <<>>
    /\ result[c].pushed = <<>>
    /\ features[1] = InitialFeatures(1, 0)[1]
    /\ Table(remote[1].updated_at, features[1].modified, features[1].github.syncedAt) = "PUSH"

\* C12: once a request of a pass fails with an engine-level error (rate
\* limit exceeded, no credential obtainable), during the issue fetch or
\* during the PATCH of a record, the pass stops early: the error is reported
\* in result.errors, no later fetched issue is pulled, pushed or created, and
\* the records applied before stay in created, updated and pushed.
EngineErrors == {"GitHub authentication required", "GitHub API rate limit exceeded"}

EngineFailure(c) ==
  /\ InFlight(c)
  /\ \/ /\ Len(warnings'[c]) > Len(warnings[c])
        /\ warnings'[c][Len(warnings'[c])] \in EngineErrors
     \/ /\ Len(result'[c].errors) > Len(result[c].errors)
        /\ result'[c].errors[Len(result'[c].errors)] \in EngineErrors

C12_EngineErrorStopsPass ==
  [][\A c \in Calls :
       EngineFailure(c)
       => /\ pc'[c] = "done"
          /\ \E k \in 1..Len(result'[c].errors) : result'[c].errors[k] \in EngineErrors
          /\ trace'[c] = trace[c]
          /\ result'[c].created = result[c].created
          /\ result'[c].updated = result[c].updated
          /\ result'[c].pushed = result[c].pushed]_vars

\* C13: whenever sync() returns, every record it created or pulled has a
\* filePath inside the directory of its status: a status change applied by
\* the pass comes with the relocation of the file.
C13_FileFollowsStatus ==
  \A c \in Calls :
    pc[c] = "done"
    => /\ \A k \in 1..Len(result[c].created) :
            getStatusFromPath(Absolute(result[c].created[k].filePath), FeaturesDir)
              = result[c].created[k].status
       /\ \A k \in 1..Len(result[c].updated) :
            getStatusFromPath(Absolute(features[result[c].updated[k]].filePath), FeaturesDir)
              = features[result[c].updated[k]].status

\* C14: moveFeatureFile never overwrites an existing file: over any sequence
\* of moves carried out one at a time, every step keeps every content on
\* disk and the number of files, leaves every file other than the one being
\* moved at its path with its content, and the file moved onto a taken name
\* gets a name of its own.
Contents(disk) == {disk[p] : p \in DOMAIN disk}

C14_NeverOverwrites ==
  /\ [](\A p, q \in DOMAIN files : files[p] = files[q] => p = q)
  /\ [][/\ Contents(files') = Contents(files)
        /\ Cardinality(DOMAIN files') = Cardinality(DOMAIN files)
        /\ \A p \in DOMAIN files \ {currentPath} :
             p \in DOMAIN files' /\ files'[p] = files[p]]_vars

C14_Witness ==
  /\ mpc = "idle"
  /\ movesLeft = 0
  /\ currentPath.name = <<>>
  /\ outcome.path = Path("done", <<1>>)
  /\ Path("done", <<>>) \in DOMAIN files
  /\ Path("done", <<1>>) \in DOMAIN files
  /\ files[Path("done", <<1>>)] = moving
  /\ files[Path("done", <<>>)] # moving

\* C15: in every state reachable during moveFeatureFile, also when
\* createDirectory or rename fails or the process stops between two steps,
\* the file it was called for exists at exactly one path, which is
\* currentPath until the rename succeeds and the returned path afterwards;
\* when a step fails the error reaches the caller and the file is still at
\* currentPath.
Holding(content) == {p \in DOMAIN files : files[p] = content}

C15_FileAtExactlyOnePath ==
  /\ [](moving # 0
        => /\ Cardinality(Holding(moving)) = 1
           /\ mpc # "idle" => Holding(moving) = {currentPath}
           /\ (mpc = "idle" /\ outcome.error # "") => Holding(moving) = {currentPath}
           /\ (mpc = "idle" /\ outcome.error = "") => Holding(moving) = {outcome.path})
  /\ [][(mpc # "idle" /\ mpc' = "idle" /\ files' = files /\ currentPath # targetPath)
        => outcome'.error # ""]_vars

C15_Witness ==
  /\ mpc = "idle"
  /\ outcome.error = "rename"
  /\ targetPath.name = <<1>>
  /\ currentPath.name = <<>>
  /\ Holding(moving) = {currentPath}
  /\ targetPath \notin DOMAIN files

\* C16: round trip: a record is pushed (title = first heading line of the
\* content, body = trimmed remainder, state closed iff status 'done') and the
\* issue is pulled back unchanged; the title, body and state of the record
\* then equal those pushed, for every content, with or without a heading
\* line, with an empty or a non-empty body.
C16_RoundTrip ==
  round.stage = "pulled"
  => /\ getTitleFromContent(round.feature.content) = round.issue.title
     /\ BodyOfContent(round.feature.content) = round.issue.body
     /\ PushBody(round.feature).state = round.issue.state

\* C17: across any sequence of sync passes and pushFeature calls, the
\* clock not going back, the syncedAt of a record never decreases: every
\* step that writes github.syncedAt (CREATE, PULL, a PUSH that succeeded)
\* stores the instant of the step, which is not earlier than the value it
\* replaces, and a record that is created starts at the instant of creation.
SyncedAtOf(feats) == [i \in 1..Len(feats) |-> feats[i].github.syncedAt]

C17_SyncedAtNeverDecreases ==
  /\ [](\A i \in 1..Len(features) : features[i].github.syncedAt <= now)
  /\ [](\A c \in Calls : \A k \in 1..Len(result[c].created) :
          result[c].created[k].github.syncedAt <= now)
  /\ [][/\ Len(features') >= Len(features)
        /\ \A i \in 1..Len(features) :
             /\ SyncedAtOf(features')[i] >= SyncedAtOf(features)[i]
             /\ SyncedAtOf(features')[i] # SyncedAtOf(features)[i]
                => SyncedAtOf(features')[i] = now'
        /\ \A c \in Calls :
             \A k \in (Len(result[c].created) + 1)..Len(result'[c].created) :
               result'[c].created[k].github.syncedAt = now']_vars

C17_Witness ==
  /\ callsLeft = MaxCalls - 1
  /\ \E c \in Calls :
       /\ pc[c] = "done"
       /\ trace[c] = <<>>
       /\ \A d \in Calls \ {c} : pc[d] = "idle"
  /\ pushesLeft = 0
  /\ pushing = NoPush
  /\ features[1].github.syncedAt = MaxTime
  /\ features[1].github.syncedAt > Pushing.syncedAt

\* C18: CREATE and PULL keep "completedAt is set exactly when the status is
\* 'done'": a record created from, or pulled onto, a closed issue is 'done'
\* and has a completedAt; a 'done' record pulled onto an open issue is no
\* longer 'done' and its completedAt is cleared; a pull that does not cross
\* the done boundary leaves completedAt as it was.
Completed(feature) == feature.completedAt # NoTime

CompletedIffDone(feature) == Completed(feature) <=> feature.status = "done"

C18_CompletedAtFollowsDone ==
  /\ [](round.stage \in {"fetched", "created", "pulledOnto"}
        => CompletedIffDone(round.feature))
  /\ [](round.stage \in {"created", "pulledOnto"}
        => (round.issue.state = "closed" <=> round.feature.status = "done"))
  /\ [][(round.stage = "fetched" /\ round'.stage = "pulledOnto")
        => /\ (round.feature.status = "done" /\ round.issue.state = "open")
              => ~Completed(round'.feature)
           /\ (round.feature.status # "done" /\ round.issue.state = "closed")
              => round'.feature.completedAt = now
           /\ (round.feature.status = "done" <=> round.issue.state = "closed")
              => /\ round'.feature.completedAt = round.feature.completedAt
                 /\ round'.feature.status = round.feature.status]_vars

C18_Witness ==
  /\ round.stage = "pulledOnto"
  /\ round.issue.state = "closed"
  /\ round.feature.status = "done"
  /\ round.feature.completedAt = now
  /\ round.feature.completedAt = MaxTime

\* C19: when no repository is configured and the detection of a call finds
\* none, so that _repo is still unset when the call resumes, the call has
\* asked for the detection once and returns a result holding only the
\* configuration error; from call to return it does not set the guard, emits
\* no status in these steps and never 'syncing', sends no request and
\* changes no record.
Steps(c) == pc'[c] # pc[c]

Untouched(c) ==
  /\ _syncing' = _syncing
  /\ features' = features
  /\ remote' = remote
  /\ emitted'[c] = emitted[c]
  /\ "syncing" \notin Range(emitted'[c])
  /\ requests'[c] = <<>>

C19_NoRepositoryNoPass ==
  /\ [][\A c \in Calls :
          /\ pc'[c] = "detecting" => pc[c] \in {"idle", "detecting"}
          /\ (Steps(c) /\ pc'[c] = "detecting") => Untouched(c)
          /\ (Steps(c) /\ pc[c] = "detecting" /\ _repo' = NoRepo)
             => pc'[c] = "initialized" /\ Untouched(c)
          /\ (Steps(c) /\ pc[c] = "initialized" /\ _repo = NoRepo)
             => /\ pc'[c] = "done"
                /\ result'[c] = [EmptyResult EXCEPT !.errors = <<NoRepository>>]
                /\ Untouched(c)]_vars
  /\ [](\A c \in Calls :
          (pc[c] = "done" /\ NoRepository \in Range(result[c].errors))
          => /\ result[c] = [EmptyResult EXCEPT !.errors = <<NoRepository>>]
             /\ Statuses(c) = <<>>
             /\ requests[c] = <<>>)

C19_Witness ==
  \E c \in Calls :
    /\ pc[c] = "done"
    /\ result[c] = [EmptyResult EXCEPT !.errors = <<NoRepository>>]
    /\ emitted[c] = <<>>
    /\ requests[c] = <<>>
    /\ _repo = NoRepo
    /\ ~_syncing
    /\ \A d \in Calls \ {c} : pc[d] = "idle"
    /\ \E start \in Timings : features = InitialFeatures(start.modified, start.syncedAt)

\* C20: one pass sends at most two issue-list requests, for page 1 and then
\* page 2; page 2 is asked for exactly when page 1 held 100 items, pull
\* requests counted; the pass resolves no more issues than the pages held
\* items, so at most 200, and none of them is a pull request.
ListRequests(c) == SelectSeq(requests[c], LAMBDA request : request[1] = "GET")

\* The issues the pass has decided on and those still to come (the issue
\* whose PATCH is awaited is in both lists).
Resolved(c) ==
  Len(trace[c]) + Len(issues[c]) - (IF pc[c] = "pushing" THEN 1 ELSE 0)

C20_AtMostTwoPages ==
  \A c \in Calls :
    /\ ListRequests(c) \in {<<>>, <<<<"GET", 1>>>>, <<<<"GET", 1>>, <<"GET", 2>>>>}
    /\ Len(received[c]) <= Len(ListRequests(c))
    /\ \A k \in 1..Len(received[c]) : received[c][k] <= PerPage
    /\ Len(ListRequests(c)) = 2 <=> (received[c] # <<>> /\ received[c][1] = PerPage)
    /\ Resolved(c) <= maxPages * PerPage
    /\ received[c] = <<>> => Resolved(c) = 0
    /\ Len(received[c]) = 1 => Resolved(c) <= received[c][1]
    /\ Len(received[c]) = 2 => Resolved(c) <= received[c][1] + received[c][2]
    /\ \A issue \in Range(issues[c]) : ~issue.pull_request
    /\ \A e \in Range(trace[c]) : e.number # PullRequestItem.number

C20_Witness ==
  \E c \in Calls :
    /\ pc[c] = "done"
    /\ ListRequests(c) = <<<<"GET", 1>>, <<"GET", 2>>>>
    /\ received[c] = <<PerPage, PerPage>>
    /\ Len(trace[c]) = 2
    /\ result[c].errors = <<>>

\* C21: PULL never blanks a local assignee: after a pull the assignee of the
\* record is the login of the issue's assignee when there is one and is what
\* it was otherwise; the labels are the label names of the issue in every
\* case, also when the issue has none.
Pulls == round.stage = "fetched" /\ round'.stage = "pulledOnto"

C21_PullKeepsAssignee ==
  [][Pulls
     => /\ round'.feature.assignee = IF round.issue.assignee # NoLogin
                                     THEN round.issue.assignee
                                     ELSE round.feature.assignee
        /\ round'.feature.labels = round.issue.labels
        /\ round'.issue = round.issue]_vars

C21_Witness ==
  /\ round.stage = "pulledOnto"
  /\ round.issue.assignee = NoLogin
  /\ round.issue.labels = <<>>
  /\ round.feature.assignee = Other
  /\ round.feature.labels = <<>>

\* C22: no step of a pass or of pushFeature changes the id of an existing
\* record, nor its priority, dueDate, created, order or filePath: a PULL,
\* also one that replaces the title in content, and a PUSH leave them as
\* they were.
Kept(feature) ==
  [id |-> feature.id, priority |-> feature.priority, dueDate |-> feature.dueDate,
   created |-> feature.created, order |-> feature.order, filePath |-> feature.filePath]

C22_IdNeverChanges ==
  [][\A i \in 1..Len(features) : Kept(features'[i]) = Kept(features[i])]_vars

C22_Witness ==
  \E c \in Calls :
    /\ pc[c] = "done"
    /\ result[c].updated = <<1>>
    /\ features[1].content = Content(<<"r">>, <<>>)
    /\ features[1].content # InitialFeatures(0, 0)[1].content
    /\ features[1].id = generateFeatureFilename(<<"l">>)

\* C23: getStatusFromPath is the inverse of getFeatureFilePath: for every
\* status s and file name f, getStatusFromPath(getFeatureFilePath(root, s,
\* f), root) = s; and it answers null for every path that is not directly in
\* a status folder of root: a file directly in root, a file nested deeper, a
\* file in a folder of root that is no status folder, a path outside root.
InStatusFolder(filePath) ==
  /\ Len(filePath) = Len(FeaturesDir) + 2
  /\ SubSeq(filePath, 1, Len(FeaturesDir)) = FeaturesDir
  /\ filePath[Len(FeaturesDir) + 1] \in StatusFolders

C23_StatusFromPathInverts ==
  /\ asked.stage = "inverted" => asked.answer = asked.status
  /\ asked.stage = "answered"
     => asked.answer = IF InStatusFolder(asked.filePath)
                       THEN asked.filePath[Len(FeaturesDir) + 1]
                       ELSE NoStatus


\* A moveFeatureFile call starts.
MoveCalled == mpc = "idle" /\ movesLeft' = movesLeft - 1

\* C24: when the file is in the folder of newStatus already, under its own
\* name, moveFeatureFile returns currentPath at once: it asks the file system
\* for nothing (no stat, no createDirectory, no rename), the files are what
\* they were, and no copy with a numeric suffix appears.
C24_SameFolderIsNoOp ==
  [][MoveCalled /\ currentPath' = targetPath'
       => /\ mpc' = "idle"
          /\ outcome' = [path |-> currentPath', error |-> ""]
          /\ ops' = <<>>
          /\ files' = files]_vars

C24_Witness ==
  /\ mpc = "idle"
  /\ moving # 0
  /\ currentPath \in DOMAIN files
  /\ currentPath = targetPath
  /\ outcome = [path |-> currentPath, error |-> ""]
  /\ ops = <<>>
  /\ movesLeft = 0


\* The k-th name moveFeatureFile tries in the folder dir for the file at
\* path: the name of the file itself, then the name with -1, -2, ... before
\* the extension.
Candidate(path, dir, k) ==
  IF k = 0 THEN Path(dir, path.name) ELSE Path(dir, Append(path.name, k))

\* The first of the candidates that is not on disk.
FirstFree(path, dir) ==
  CHOOSE k \in 0..Cardinality(DOMAIN files) :
    /\ Candidate(path, dir, k) \notin DOMAIN files
    /\ \A j \in 0..(k - 1) : Candidate(path, dir, j) \in DOMAIN files

\* The paths fileExists was asked about, in the order of the requests.
Stats == SelectSeq(ops, LAMBDA op : op[1] = "stat")

\* C25: the path moveFeatureFile returns after a move is the first free
\* candidate in the order base.ext, base-1.ext, base-2.ext, ...: it is in the
\* target folder, it was not on disk before the call, every earlier candidate
\* was, the candidates were tried in that order, and the search ends whatever
\* finite set of files is on disk.
C25_FirstFreeCandidate ==
  /\ [][(mpc = "fileExists" \/ mpc = "createDirectory") => files' = files]_vars
  /\ [][(mpc = "rename" /\ outcome'.error = "")
          => LET n == FirstFree(currentPath, targetPath.dir)
             IN  /\ outcome'.path = Candidate(currentPath, targetPath.dir, n)
                 /\ outcome'.path \notin DOMAIN files
                 /\ \A k \in 0..(n - 1) :
                      Candidate(currentPath, targetPath.dir, k) \in DOMAIN files
                 /\ Stats = [k \in 1..(n + 1) |->
                               <<"stat", Candidate(currentPath, targetPath.dir, k - 1)>>]]_vars
  /\ (mpc = "fileExists") ~> (mpc = "createDirectory")

C25_Witness ==
  /\ mpc = "idle"
  /\ outcome.error = ""
  /\ outcome.path = Candidate(currentPath, outcome.path.dir, 2)
  /\ Len(Stats) = 3
  /\ Candidate(currentPath, outcome.path.dir, 0) \in DOMAIN files
  /\ Candidate(currentPath, outcome.path.dir, 1) \in DOMAIN files
  /\ files[outcome.path] = moving


\* Call c takes a step of _fetchIssues that does not end the fetch with the
\* last page: a further page is asked for, or the page request failed.
FetchGoesOn(c) == pc[c] = "fetching" /\ page'[c] = page[c] + 1
FetchFailed(c) == pc[c] = "fetching" /\ pc'[c] = "done" /\ result'[c].errors # <<>>

\* C26: within a pass nothing is decided, changed, created or pushed before
\* every page of the fetch has come back; when a page request fails, be it
\* page 2 after page 1 arrived, the pass has changed no record and its
\* created, updated and pushed lists are empty.
C26_NothingBeforeAllPages ==
  /\ [](\A c \in Calls :
          pc[c] = "fetching"
            => /\ trace[c] = <<>>
               /\ result[c] = EmptyResult
               /\ Patches(c) = <<>>
               /\ existing[c] = 0)
  /\ [][\A c \in Calls :
          /\ FetchGoesOn(c) \/ FetchFailed(c)
               => features' = features /\ remote' = remote
          /\ FetchFailed(c)
               => /\ result'[c].created = <<>>
                  /\ result'[c].updated = <<>>
                  /\ result'[c].pushed = <<>>
                  /\ Len(result'[c].errors) = 1
                  /\ trace'[c] = <<>>
                  /\ Patches(c) = <<>> /\ requests'[c] = requests[c]]_vars

\* The request for page 2 failed after page 1 had arrived with 100 items,
\* an issue without a record among them.
C26_Witness ==
  \E c \in Calls :
    /\ pc[c] = "done"
    /\ requests[c] = << <<"GET", 1>>, <<"GET", 2>> >>
    /\ received[c] = <<PerPage>>
    /\ Len(issues[c]) = 1
    /\ result[c].errors # <<>>
    /\ result[c].created = <<>>


\* The page requests of call c.
Gets(c) == SelectSeq(requests[c], LAMBDA request : request[1] = "GET")

NoRepeat(seq) == \A i, j \in 1..Len(seq) : seq[i] = seq[j] => i = j

\* The records the PUSH decisions of call c were taken for, in their order.
PushedRecords(c) ==
  LET pushes == SelectSeq(trace[c], LAMBDA entry : entry.action = "PUSH" /\ entry.repo # NoRepo)
  IN  [k \in 1..Len(pushes) |-> pushes[k].existing]

\* C27: no request is sent twice within a pass: the pages asked for are 1, 2,
\* ... each once, one PATCH is sent for each PUSH decision and no record gets
\* two of them, also when its PATCH failed; a push that failed is attempted
\* again only by a later pass.
C27_NoRetryWithinPass ==
  \A c \in Calls :
    /\ Gets(c) = [p \in 1..Len(Gets(c)) |-> <<"GET", p>>]
    /\ Len(Gets(c)) <= maxPages
    /\ NoRepeat(Patches(c))
    /\ NoRepeat(PushedRecords(c))
    /\ Len(Patches(c)) = Len(PushedRecords(c))
    /\ Len(warnings[c]) <= Len(Patches(c))

\* The PATCH of one pass failed and the pass ended with that one PATCH sent;
\* the next pass sends the PATCH for the same issue.
C27_Witness ==
  \E c, d \in Calls :
    /\ c # d
    /\ pc[c] = "done"
    /\ Len(warnings[c]) = 1
    /\ Len(Gets(c)) = 2
    /\ Patches(c) = << <<"PATCH", 1>> >>
    /\ pc[d] = "pushing"
    /\ Patches(d) = << <<"PATCH", 1>> >>


\* Record i is linked to an issue GitHub holds.
LinkedHere(i) == HasGithub(features[i]) /\ features[i].github.issueNumber \in DOMAIN remote

\* Record i holds what a pull of its issue writes: nothing changed on GitHub
\* since the record was created from the issue or pulled.
Mirrors(i) ==
  LET issue == remote[features[i].github.issueNumber]
  IN  /\ features[i].content = Content(issue.title, issue.body)
      /\ features[i].labels = issue.labels
      /\ (features[i].status = "done") = (issue.state = "closed")

\* Record i was not edited after its last sync.
Unedited(i) == features[i].modified <= features[i].github.syncedAt

\* The issue of record i carries an instant later than the last sync.
RemoteLater(i) ==
  remote[features[i].github.issueNumber].updated_at > features[i].github.syncedAt

\* C28 as stated: a record that mirrors its issue and was not edited after
\* its sync is left as it is by every step of a pass.
C28_SecondPassLeavesUntouched ==
  [][\A i \in 1..Len(features) :
       (LinkedHere(i) /\ Mirrors(i) /\ Unedited(i)) => features'[i] = features[i]]_vars

\* C28, amended: every record a pass created or pulled has modified <= syncedAt
\* when the pass returns; no pass decides PUSH for a record whose modified is
\* not later than its syncedAt; and a later pass leaves such a record that
\* mirrors its issue as it is when the updated_at of the issue is not later
\* than the syncedAt of the record.
C28_PulledRecordsStaySynced ==
  /\ [](\A c \in Calls :
          pc[c] = "done"
            => /\ \A k \in 1..Len(result[c].created) :
                    result[c].created[k].modified <= result[c].created[k].github.syncedAt
               /\ \A k \in 1..Len(result[c].updated) : Unedited(result[c].updated[k]))
  /\ [](\A c \in Calls : \A k \in 1..Len(trace[c]) :
          trace[c][k].action = "PUSH" => trace[c][k].modified > trace[c][k].syncedAt)
  /\ [][\A i \in 1..Len(features) :
          (LinkedHere(i) /\ Mirrors(i) /\ Unedited(i) /\ ~RemoteLater(i))
            => features'[i] = features[i]]_vars

\* The second pass skipped the record the first pass had pulled.
C28_Witness ==
  \E c \in Calls :
    /\ pc[c] = "done"
    /\ callsLeft = 0
    /\ caller = "awaits"
    /\ Len(trace[c]) = 1
    /\ trace[c][1].existing = 1
    /\ trace[c][1].action = "SKIP"
    /\ trace[c][1].modified = trace[c][1].syncedAt
    /\ LinkedHere(1) /\ Mirrors(1)
    /\ features[1].labels = <<"bug">>


\* C29: a pull changes the status of the record only when the issue and the
\* record are on different sides of done: an open issue pulled onto a record
\* in backlog, todo, in-progress or review leaves the status (and completedAt)
\* as it is, a closed issue pulled onto a done record leaves status and
\* completedAt as they are, a closed issue moves any other record to done and
\* an open issue moves a done record to the status resolved for it.
C29_StatusChangesAtDoneBoundary ==
  [][Pulls
       => LET before == round.feature
              after == round'.feature
              closed == round.issue.state = "closed"
          IN  /\ (after.status # before.status) = (closed # (before.status = "done"))
              /\ (closed = (before.status = "done"))
                   => after.completedAt = before.completedAt
              /\ (closed /\ before.status # "done") => after.status = "done"
              /\ (~closed /\ before.status = "done")
                   => after.status = _resolveOpenIssueStatus(round.issue, round.login)]_vars

\* An open issue assigned to the user was pulled onto a record in progress.
C29_Witness ==
  /\ round.stage = "pulledOnto"
  /\ round.issue.state = "open"
  /\ round.issue.assignee = Me
  /\ round.login = Me
  /\ round.feature.status = "in-progress"
  /\ round.feature.content = Content(round.issue.title, round.issue.body)


\* The last status call c passed to _onStatusChange.
FinalStatus(c) == emitted[c][Len(emitted[c])]

\* C30: for every pass that emitted 'syncing', the last status emitted when
\* the call returns is 'error' exactly when result.errors is not empty and
\* 'success' exactly when it is empty; a pass in which a PATCH failed follows
\* the same rule (the failure is a warning, not an entry of errors).
C30_FinalStatusMatchesErrors ==
  \A c \in Calls :
    (pc[c] = "done" /\ "syncing" \in Range(emitted[c]))
      => /\ FinalStatus(c) \in {"error", "success"}
         /\ (FinalStatus(c) = "error") = (result[c].errors # <<>>)
         /\ (FinalStatus(c) = "success") = (result[c].errors = <<>>)

\* A pass whose PATCH failed ended with 'success' and no error.
C30_Witness ==
  \E c \in Calls :
    /\ pc[c] = "done"
    /\ "syncing" \in Range(emitted[c])
    /\ warnings[c] # <<>>
    /\ result[c].errors = <<>>
    /\ FinalStatus(c) = "success"

====
